---- MODULE Spec2Model ----
(***************************************************************************)
(* Model of examples/nlp/language_modeling/megatron_gpt_prune.py:          *)
(* the calibration batch generator get_calib_data_iter and the pruning     *)
(* pipeline main with its forward_loop closure.                            *)
(***************************************************************************)
EXTENDS Integers, Sequences, FiniteSets, TLC

\* ---------------------------------------------------------------- bounds
MaxL == 5          \* longest dataset (rows)
MaxRowLen == 2     \* longest text of a row (characters)
MaxB == 2          \* largest batch size
MaxR == 5          \* largest requested calibration size
MaxM == 2          \* largest max_sequence_length
MaxFwd == 2        \* most invocations of forward_loop by one pruning call
MaxApply == 2      \* most applications of the config correction (SpecCorrection)

VARIABLES
    dataset,              \* the rows of the loaded dataset's text column
    batch_size,           \* argument batch_size
    calib_size_arg,       \* argument calib_size as passed by the caller
    max_sequence_length,  \* argument max_sequence_length
    gen_pc,               \* position of the generator: created / running / done / failed
    calib_size,           \* local calib_size after line 66
    gen_i,                \* loop variable i of line 67
    dataloader,           \* the batches yielded so far (collected at line 95)
    rows_read,            \* per yielded batch, the dataset positions its slice read
    pc,                   \* position of main: the step it executes next
    cuda_available,       \* torch.cuda.is_available()
    cfg_prune,            \* cfg.prune: the requested ffn_hidden_size, heads, query groups
    cfg_model,            \* cfg.model: the caller's overrides of the model config
    ckpt_cfg,             \* the configuration stored in the checkpoint
    model_cfg,            \* local model_cfg of main
    model_pruned_cfg,     \* model_pruned.cfg
    fwd_calls,            \* per invocation of forward_loop, its calls on the model
    saved,                \* what export.save_path holds
    applied,              \* the pruned config after each application of the correction
    log                   \* the external calls of main, in order

vars == <<dataset, batch_size, calib_size_arg, max_sequence_length,
          gen_pc, calib_size, gen_i, dataloader, rows_read, pc,
          cuda_available, cfg_prune, cfg_model, ckpt_cfg, model_cfg,
          model_pruned_cfg, fwd_calls, saved, applied, log>>
cfgVars == <<cuda_available, cfg_prune, cfg_model, ckpt_cfg>>
argVars == <<dataset, batch_size, calib_size_arg, max_sequence_length>>

\* ------------------------------------------------------- python builtins
Min(a, b) == IF a <= b THEN a ELSE b
Max(a, b) == IF a >= b THEN a ELSE b

\* mutant: the slice keeps one character too many
StrSliceTo_offByOne(s, m) == SubSeq(s, 1, Min(m + 1, Len(s)))
\* s[:m] on a str: a negative stop counts from the end, both clamp to the string
StrSliceTo(s, m) ==
    LET stop == IF m < 0 THEN Max(Len(s) + m, 0) ELSE Min(m, Len(s))
    IN  SubSeq(s, 1, stop)

\* mutant: the window is anchored one row early, so consecutive windows overlap
SlicePositions_overlap(n, a, b) ==
    [k \in 1..Max(Min(b, n) - Max(a - 1, 0), 0) |-> Max(a - 1, 0) + k - 1]
\* the 0-based positions dataset[a:b] selects (0 <= a <= b), clamped to the dataset
SlicePositions(n, a, b) == [k \in 1..Max(Min(b, n) - a, 0) |-> a + k - 1]

\* dataset[a:b][text_column]: the texts of the selected rows, in order
SliceColumn(ds, a, b) ==
    LET p == SlicePositions(Len(ds), a, b) IN [k \in 1..Len(p) |-> ds[p[k] + 1]]

\* ------------------------------------------------------------ the inputs
\* The text of row k with len characters; a character is <<row, index>>, so
\* that every character of the dataset is distinct.
RowText(k, len) == [c \in 1..len |-> <<k, c>>]

Datasets ==
    UNION { { [k \in 1..n |-> RowText(k - 1, lens[k])] : lens \in [1..n -> 0..MaxRowLen] }
            : n \in 0..MaxL }

\* ------------------------------------------------------- configurations
\* A configuration is a mapping from key to value; null is None.
None == -1

\* dict.update / DictConfig.update: the keys of b win
Update(a, b) == [k \in DOMAIN a \cup DOMAIN b |-> IF k \in DOMAIN b THEN b[k] ELSE a[k]]

Unset == [name |-> "unset"]

Requests ==
    { [ffn_hidden_size |-> 8, num_attention_heads |-> 2, num_query_groups |-> 1],
      [ffn_hidden_size |-> 12, num_attention_heads |-> 3, num_query_groups |-> 3] }

StoredBase ==
    { [name |-> "megatron_gpt", hidden_size |-> 8, num_attention_heads |-> 4,
       ffn_hidden_size |-> 16, num_query_groups |-> 4],
      [name |-> "megatron_gpt", hidden_size |-> 7, num_attention_heads |-> 4,
       ffn_hidden_size |-> 16, num_query_groups |-> 2] }

\* the stored configuration has no kv_channels, a null one, or a value
StoredConfigs ==
    StoredBase
    \cup { Update(c, [kv_channels |-> None]) : c \in StoredBase }
    \cup { Update(c, [kv_channels |-> 5]) : c \in StoredBase }

Overrides ==
    { [restore_from_path |-> "model.nemo"],
      [restore_from_path |-> "model.nemo", kv_channels |-> None],
      [restore_from_path |-> "model.nemo", kv_channels |-> 3] }

\* ------------------------------------------------------ main: control flow
\* mutant: the model is saved before its configuration is corrected
AfterStep_saveFirst(step) ==
    CASE step = "check_cuda"  -> "load_config"
      [] step = "load_config" -> "restore"
      [] step = "restore"     -> "calib"
      [] step = "calib"       -> "prune"
      [] step = "prune"       -> "save"
      [] step = "save"        -> "correct"
      [] step = "correct"     -> "barrier"
      [] step = "barrier"     -> "done"
\* the order of the statements of main: the step that follows a completed step
AfterStep(step) ==
    CASE step = "check_cuda"  -> "load_config"
      [] step = "load_config" -> "restore"
      [] step = "restore"     -> "calib"
      [] step = "calib"       -> "prune"
      [] step = "prune"       -> "correct"
      [] step = "correct"     -> "save"
      [] step = "save"        -> "barrier"
      [] step = "barrier"     -> "done"

\* mutant: the exception is swallowed and main carries on
OnRaise_swallow(step) == AfterStep(step)
\* main has no try/except: an exception raised by a step ends the run
OnRaise(step) == "failed"

\* mutant: the availability check does not stop the run
CudaGuard_ignored(avail) == AfterStep("check_cuda")
\* lines 75-76
CudaGuard(avail) == IF avail THEN AfterStep("check_cuda") ELSE OnRaise("check_cuda")

Done(step) == <<"done", step>>
Raised(step) == <<"raise", step>>

\* ------------------------------------------------- get_calib_data_iter
\* mutant: the clamp up to one batch is missing
EffectiveCalibSize_noClamp(L, R, B) == Min(L, R)
EffectiveCalibSize(L, R, B) == Max(Min(L, R), B)

\* lines 56-66: the first next() loads the dataset and clamps calib_size
LoadDataset ==
    /\ pc = "calib"
    /\ gen_pc = "created"
    /\ log' = Append(log, Done("load_dataset"))
    /\ calib_size' = EffectiveCalibSize(Len(dataset), calib_size_arg, batch_size)
    /\ gen_i' = 0
    /\ gen_pc' = "running"
    /\ UNCHANGED <<argVars, dataloader, rows_read, pc, cfgVars, model_cfg,
                   model_pruned_cfg, fwd_calls, saved, applied>>

\* mutant: the remainder gets a batch of its own
NumBatches_ceil(E, B) == (E + B - 1) \div B
NumBatches(E, B) == E \div B

TruncateBatch(batch, M) == [j \in 1..Len(batch) |-> StrSliceTo(batch[j], M)]

MakeBatch(ds, i, B, M) == TruncateBatch(SliceColumn(ds, i * B, (i + 1) * B), M)

\* lines 67-71: one iteration of the loop, up to and including the yield
YieldBatch ==
    /\ pc = "calib"
    /\ gen_pc = "running"
    /\ gen_i < NumBatches(calib_size, batch_size)
    /\ dataloader' = Append(dataloader,
                            MakeBatch(dataset, gen_i, batch_size, max_sequence_length))
    /\ rows_read' = Append(rows_read,
                           SlicePositions(Len(dataset), gen_i * batch_size,
                                          (gen_i + 1) * batch_size))
    /\ gen_i' = gen_i + 1
    /\ UNCHANGED <<argVars, gen_pc, calib_size, pc, cfgVars, model_cfg,
                   model_pruned_cfg, fwd_calls, saved, applied, log>>

\* line 67: range exhausted, the generator returns and line 95 has its list
StopIteration ==
    /\ pc = "calib"
    /\ gen_pc = "running"
    /\ gen_i >= NumBatches(calib_size, batch_size)
    /\ gen_pc' = "done"
    /\ pc' = AfterStep("calib")
    /\ log' = Append(log, Done("calib"))
    /\ UNCHANGED <<argVars, calib_size, gen_i, dataloader, rows_read, cfgVars,
                   model_cfg, model_pruned_cfg, fwd_calls, saved, applied>>

\* lines 56-68: load_dataset raises, or the text column is missing
LoadDatasetFail ==
    /\ pc = "calib"
    /\ gen_pc = "created"
    /\ gen_pc' = "failed"
    /\ pc' = OnRaise("calib")
    /\ log' = Append(log, Raised("calib"))
    /\ UNCHANGED <<argVars, calib_size, gen_i, dataloader, rows_read, cfgVars,
                   model_cfg, model_pruned_cfg, fwd_calls, saved, applied>>

\* ------------------------------------------------------------------ main
genVars == <<gen_pc, calib_size, gen_i, dataloader, rows_read>>

\* lines 75-76
CheckCuda ==
    /\ pc = "check_cuda"
    /\ pc' = CudaGuard(cuda_available)
    /\ log' = Append(log, IF cuda_available THEN Done("check_cuda")
                                            ELSE Raised("check_cuda"))
    /\ UNCHANGED <<argVars, genVars, cfgVars, model_cfg, model_pruned_cfg,
                   fwd_calls, saved, applied>>

\* lines 79-81
MergedConfig(stored, overrides) == Update(Update(stored, overrides), [name |-> "modelopt"])

LoadConfig ==
    /\ pc = "load_config"
    /\ model_cfg' = MergedConfig(ckpt_cfg, cfg_model)
    /\ pc' = AfterStep("load_config")
    /\ log' = Append(log, Done("load_config"))
    /\ UNCHANGED <<argVars, genVars, cfgVars, model_pruned_cfg, fwd_calls, saved, applied>>

\* a step of main raises
Fail(step) ==
    /\ pc = step
    /\ pc' = OnRaise(step)
    /\ log' = Append(log, Raised(step))
    /\ UNCHANGED <<argVars, genVars, cfgVars, model_cfg, model_pruned_cfg,
                   fwd_calls, saved, applied>>

LoadConfigFail == Fail("load_config")

\* lines 83-87
Restore ==
    /\ pc = "restore"
    /\ pc' = AfterStep("restore")
    /\ log' = Append(log, Done("restore"))
    /\ UNCHANGED <<argVars, genVars, cfgVars, model_cfg, model_pruned_cfg,
                   fwd_calls, saved, applied>>

RestoreFail == Fail("restore")

\* lines 104-108: mtp.prune is entered
PruneCall ==
    /\ pc = "prune"
    /\ pc' = "pruning"
    /\ log' = Append(log, <<"call", "prune">>)
    /\ UNCHANGED <<argVars, genVars, cfgVars, model_cfg, model_pruned_cfg,
                   fwd_calls, saved, applied>>

\* mutant: the step index counts from 1
ForwardLoopCalls_fromOne(dl) ==
    <<<<"set_inference_config">>>> \o [i \in 1..Len(dl) |-> <<"predict_step", dl[i], i>>]
\* lines 100-102: the calls one invocation of forward_loop makes on the model
ForwardLoopCalls(dl) ==
    <<<<"set_inference_config">>>> \o [i \in 1..Len(dl) |-> <<"predict_step", dl[i], i - 1>>]

\* lines 97-102: the pruning routine invokes the closure
ForwardLoop ==
    /\ pc = "pruning"
    /\ Len(fwd_calls) < MaxFwd
    /\ fwd_calls' = Append(fwd_calls, ForwardLoopCalls(dataloader))
    /\ UNCHANGED <<argVars, genVars, cfgVars, model_cfg, model_pruned_cfg,
                   saved, applied, pc, log>>

\* the configuration of the model mtp.prune hands back: the restored model's,
\* with the pruned dimensions left stale or already corrected by the routine
PrunedConfigs(mcfg, req) == {mcfg, Update(mcfg, req)}

\* lines 108-128: mtp.prune returns the pruned model
PruneReturn ==
    /\ pc = "pruning"
    /\ model_pruned_cfg' \in PrunedConfigs(model_cfg, cfg_prune)
    /\ pc' = AfterStep("prune")
    /\ log' = Append(log, Done("prune"))
    /\ UNCHANGED <<argVars, genVars, cfgVars, model_cfg, fwd_calls, saved, applied>>

\* mtp.prune, or a predict step inside it, raises
PruneFail ==
    /\ pc = "pruning"
    /\ pc' = OnRaise("prune")
    /\ log' = Append(log, Raised("prune"))
    /\ UNCHANGED <<argVars, genVars, cfgVars, model_cfg, model_pruned_cfg,
                   fwd_calls, saved, applied>>

\* mutant: an existing kv_channels is ignored
KvChannels_recomputed(mcfg) == mcfg.hidden_size \div mcfg.num_attention_heads
\* lines 133-134
KvChannels(mcfg) ==
    LET kv == IF "kv_channels" \in DOMAIN mcfg THEN mcfg.kv_channels ELSE None
    IN  IF kv # None THEN kv ELSE mcfg.hidden_size \div mcfg.num_attention_heads

\* mutant: kv_channels is derived from the pruned model's own head count
CorrectedCfg_fromPruned(pcfg, req, mcfg) ==
    Update(pcfg, [ffn_hidden_size     |-> req.ffn_hidden_size,
                  num_attention_heads |-> req.num_attention_heads,
                  num_query_groups    |-> req.num_query_groups,
                  kv_channels         |-> mcfg.hidden_size \div pcfg.num_attention_heads])
\* lines 133-139
CorrectedCfg(pcfg, req, mcfg) ==
    Update(pcfg, [ffn_hidden_size     |-> req.ffn_hidden_size,
                  num_attention_heads |-> req.num_attention_heads,
                  num_query_groups    |-> req.num_query_groups,
                  kv_channels         |-> KvChannels(mcfg)])

\* lines 136-139, in order
CorrectionEvents ==
    << <<"set", "ffn_hidden_size">>, <<"set", "num_attention_heads">>,
       <<"set", "num_query_groups">>, <<"set", "kv_channels">> >>

CorrectConfig ==
    /\ pc = "correct"
    /\ model_pruned_cfg' = CorrectedCfg(model_pruned_cfg, cfg_prune, model_cfg)
    /\ applied' = Append(applied, model_pruned_cfg')
    /\ pc' = AfterStep("correct")
    /\ log' = log \o CorrectionEvents
    /\ UNCHANGED <<argVars, genVars, cfgVars, model_cfg, fwd_calls, saved>>

\* line 141
Save ==
    /\ pc = "save"
    /\ saved' = <<model_pruned_cfg>>
    /\ pc' = AfterStep("save")
    /\ log' = Append(log, Done("save"))
    /\ UNCHANGED <<argVars, genVars, cfgVars, model_cfg, model_pruned_cfg,
                   fwd_calls, applied>>

SaveFail == Fail("save")

\* line 143
Barrier ==
    /\ pc = "barrier"
    /\ pc' = AfterStep("barrier")
    /\ log' = Append(log, Done("barrier"))
    /\ UNCHANGED <<argVars, genVars, cfgVars, model_cfg, model_pruned_cfg,
                   fwd_calls, saved, applied>>

BarrierFail == Fail("barrier")

\* lines 133-139 once more, on the configuration they produced
ReapplyCorrection ==
    /\ pc = "save"
    /\ Len(applied) >= 1
    /\ Len(applied) < MaxApply
    /\ model_pruned_cfg' = CorrectedCfg(model_pruned_cfg, cfg_prune, model_cfg)
    /\ applied' = Append(applied, model_pruned_cfg')
    /\ log' = log \o CorrectionEvents
    /\ UNCHANGED <<argVars, genVars, cfgVars, model_cfg, fwd_calls, saved, pc>>

\* -------------------------------------------------------- specifications
InitConfig ==
    /\ cfg_prune \in Requests
    /\ cfg_model \in Overrides
    /\ ckpt_cfg \in StoredConfigs

InitGenerator ==
    /\ gen_pc = "created"
    /\ calib_size = calib_size_arg
    /\ gen_i = 0
    /\ dataloader = <<>>
    /\ rows_read = <<>>

\* the pruning pipeline from the entry of main
Init ==
    /\ cuda_available \in BOOLEAN
    /\ InitConfig
    /\ dataset \in {ds \in Datasets : \A k \in 1..Len(ds) : Len(ds[k]) = MaxRowLen}
    /\ batch_size \in 1..MaxB
    /\ calib_size_arg \in {0, MaxR}
    /\ max_sequence_length = MaxM
    /\ InitGenerator
    /\ pc = "check_cuda"
    /\ model_cfg = Unset
    /\ model_pruned_cfg = Unset
    /\ fwd_calls = <<>>
    /\ saved = <<>>
    /\ applied = <<>>
    /\ log = <<>>

Next ==
    \/ CheckCuda
    \/ LoadConfig \/ LoadConfigFail
    \/ Restore \/ RestoreFail
    \/ LoadDataset \/ LoadDatasetFail \/ YieldBatch \/ StopIteration
    \/ PruneCall \/ ForwardLoop \/ PruneReturn \/ PruneFail
    \/ CorrectConfig
    \/ Save \/ SaveFail
    \/ Barrier \/ BarrierFail

Spec == Init /\ [][Next]_vars

\* get_calib_data_iter alone, drained by its caller, over all its arguments
InitCalib ==
    /\ dataset \in Datasets
    /\ batch_size \in 1..MaxB
    /\ calib_size_arg \in 0..MaxR
    /\ max_sequence_length \in 0..MaxM
    /\ InitGenerator
    /\ pc = "calib"
    /\ cuda_available = TRUE
    /\ cfg_prune = CHOOSE r \in Requests : TRUE
    /\ cfg_model = CHOOSE o \in Overrides : TRUE
    /\ ckpt_cfg = CHOOSE c \in StoredConfigs : TRUE
    /\ model_cfg = MergedConfig(ckpt_cfg, cfg_model)
    /\ model_pruned_cfg = Unset
    /\ fwd_calls = <<>>
    /\ saved = <<>>
    /\ applied = <<>>
    /\ log = <<>>

NextCalib == LoadDataset \/ YieldBatch \/ StopIteration

SpecCalib == InitCalib /\ [][NextCalib]_vars

\* the config correction alone, applied repeatedly to the pruned configuration
InitCorrection ==
    /\ cuda_available = TRUE
    /\ InitConfig
    /\ dataset = <<>>
    /\ batch_size = 1
    /\ calib_size_arg = 0
    /\ max_sequence_length = 0
    /\ gen_pc = "done"
    /\ calib_size = 1
    /\ gen_i = 1
    /\ dataloader = << <<>> >>
    /\ rows_read = << <<>> >>
    /\ pc = "correct"
    /\ model_cfg = MergedConfig(ckpt_cfg, cfg_model)
    /\ model_pruned_cfg \in PrunedConfigs(model_cfg, cfg_prune)
    /\ fwd_calls = <<>>
    /\ saved = <<>>
    /\ applied = <<>>
    /\ log = <<>>

NextCorrection == CorrectConfig \/ ReapplyCorrection

SpecCorrection == InitCorrection /\ [][NextCorrection]_vars

\* ------------------------------------------------------------ properties
Range(s) == {s[k] : k \in 1..Len(s)}
IsPrefix(s, t) == Len(s) <= Len(t) /\ SubSeq(t, 1, Len(s)) = s
ExpectedE == IF Min(Len(dataset), calib_size_arg) >= batch_size
             THEN Min(Len(dataset), calib_size_arg) ELSE batch_size

\* C1 (as stated): for any L, B, R the generator yields exactly floor(E / B)
\* batches, E = max(min(L, R), B), and every yielded batch holds exactly B strings.
C1_AnyDatasetFullBatches ==
    /\ \A i \in 1..Len(dataloader) : Len(dataloader[i]) = batch_size
    /\ gen_pc = "done" => Len(dataloader) = ExpectedE \div batch_size

\* C1 (amended): the generator yields exactly floor(E / B) batches for any L, B, R;
\* every yielded batch holds exactly B strings when L >= B, and when L < B the
\* single batch holds the L rows of the dataset.
C1_BatchCountAndSize ==
    /\ gen_pc = "done" => Len(dataloader) = ExpectedE \div batch_size
    /\ Len(dataset) >= batch_size =>
           \A i \in 1..Len(dataloader) : Len(dataloader[i]) = batch_size
    /\ Len(dataset) < batch_size =>
           /\ Len(dataloader) <= 1
           /\ \A i \in 1..Len(dataloader) : Len(dataloader[i]) = Len(dataset)

C1_Witness ==
    /\ gen_pc = "done"
    /\ Len(dataset) >= batch_size
    /\ Len(dataloader) >= 2
    /\ ExpectedE % batch_size # 0

\* C2: every string of every yielded batch has at most max_sequence_length characters.
C2_StringsTruncated ==
    \A i \in 1..Len(dataloader) : \A j \in 1..Len(dataloader[i]) :
        Len(dataloader[i][j]) <= max_sequence_length

C2_Witness ==
    /\ gen_pc = "done"
    /\ \E i \in 1..Len(dataloader) : \E j \in 1..Len(dataloader[i]) :
           /\ Len(dataset[rows_read[i][j] + 1]) > max_sequence_length
           /\ Len(dataloader[i][j]) = max_sequence_length
           /\ max_sequence_length > 0

\* C3: when R < B and L >= B the generator yields at least one batch, and
\* that batch holds exactly B strings.
C3_ClampedToOneBatch ==
    (gen_pc = "done" /\ calib_size_arg < batch_size /\ Len(dataset) >= batch_size)
        => /\ Len(dataloader) >= 1
           /\ Len(dataloader[1]) = batch_size

C3_Witness ==
    /\ gen_pc = "done"
    /\ calib_size_arg < batch_size
    /\ Len(dataset) > batch_size
    /\ Len(dataloader) = 1

\* C4: batch i (from 0) is built from exactly the dataset rows at positions
\* i*B .. (i+1)*B - 1, in order, each string a prefix of its row's text; the
\* batches do not overlap and no row at position floor(E/B)*B or later is used.
C4_HeadOrderDisjoint ==
    /\ \A i \in 1..Len(dataloader) :
           /\ Range(rows_read[i]) =
                  {p \in ((i - 1) * batch_size)..(i * batch_size - 1) : p < Len(dataset)}
           /\ Len(dataloader[i]) = Len(rows_read[i])
           /\ \A j \in 1..Len(dataloader[i]) :
                  /\ rows_read[i][j] = (i - 1) * batch_size + j - 1
                  /\ IsPrefix(dataloader[i][j], dataset[rows_read[i][j] + 1])
                  /\ \A c \in 1..Len(dataloader[i][j]) :
                         dataloader[i][j][c] = <<(i - 1) * batch_size + j - 1, c>>
                  /\ rows_read[i][j] < (ExpectedE \div batch_size) * batch_size
    /\ \A i1, i2 \in 1..Len(dataloader) :
           i1 # i2 => Range(rows_read[i1]) \cap Range(rows_read[i2]) = {}

C4_Witness ==
    /\ gen_pc = "done"
    /\ Len(dataloader) >= 2
    /\ batch_size >= 2
    /\ Len(dataset) > Len(dataloader) * batch_size
    /\ \E j \in 1..Len(dataloader[2]) : Len(dataloader[2][j]) >= 1
Count(e) == Cardinality({i \in 1..Len(log) : log[i] = e})
Occurs(e) == \E i \in 1..Len(log) : log[i] = e
Steps == {"check_cuda", "load_config", "restore", "load_dataset", "calib",
          "prune", "save", "barrier"}
CorrectedFields == {"ffn_hidden_size", "num_attention_heads", "num_query_groups",
                    "kv_channels"}

\* C5: without an accelerator main raises the environment error before anything
\* else: no config is loaded, no model restored, no calibration data read, the
\* pruning routine is not called and nothing is saved.
C5_FailFastWithoutAccelerator ==
    ~cuda_available =>
        /\ pc \in {"check_cuda", "failed"}
        /\ \A i \in 1..Len(log) : log[i] = Raised("check_cuda")
        /\ model_cfg = Unset
        /\ gen_pc = "created"
        /\ dataloader = <<>>
        /\ fwd_calls = <<>>
        /\ model_pruned_cfg = Unset
        /\ saved = <<>>

C5_Witness == ~cuda_available /\ pc = "failed" /\ log = <<Raised("check_cuda")>>

\* C6: the pruning routine is called at most once; the save happens only after
\* the pruning call returned and all four fields were overwritten; the barrier
\* is entered only after the save completed.
C6_PruneOnceSaveAfterCorrection ==
    /\ Count(<<"call", "prune">>) <= 1
    /\ saved # <<>> => Occurs(Done("save"))
    /\ \A i \in 1..Len(log) :
           log[i] \in {Done("save"), Raised("save")} =>
               \E p \in 1..(i - 1) :
                   /\ log[p] = Done("prune")
                   /\ \A f \in CorrectedFields :
                          \E q \in (p + 1)..(i - 1) : log[q] = <<"set", f>>
    /\ \A i \in 1..Len(log) :
           log[i] \in {Done("barrier"), Raised("barrier")} =>
               \E q \in 1..(i - 1) : log[q] = Done("save")
    /\ pc \in {"barrier", "done"} => saved # <<>>

C6_Witness ==
    /\ pc = "done"
    /\ Occurs(Done("barrier"))
    /\ saved = <<model_pruned_cfg>>
    /\ Len(fwd_calls) >= 1

\* C7: a failing external call is fatal: nothing runs after it, no step is
\* executed twice, and a failure at or before the pruning call leaves
\* export.save_path unwritten.
C7_FailureIsFatal ==
    /\ \A i \in 1..Len(log) : log[i][1] = "raise" => (i = Len(log) /\ pc = "failed")
    /\ pc = "failed" =>
           /\ Len(log) >= 1
           /\ log[Len(log)][1] = "raise"
           /\ ~ENABLED Next
           /\ log[Len(log)][2] \in {"check_cuda", "load_config", "restore", "calib", "prune"}
                  => saved = <<>>
    /\ \A st \in Steps : Count(Done(st)) + Count(Raised(st)) + Count(<<"call", st>>)
                             <= (IF st = "prune" THEN 2 ELSE 1)
    /\ Count(<<"call", "prune">>) <= 1

C7_Witness ==
    /\ pc = "failed"
    /\ log[Len(log)] = Raised("prune")
    /\ Len(fwd_calls) >= 1
    /\ saved = <<>>

\* C8: after the correction the pruned configuration has the three requested
\* values, and kv_channels is the merged configuration's kv_channels when that
\* key is present and not null, else its hidden_size // num_attention_heads.
C8_CorrectedFieldValues ==
    Occurs(<<"set", "kv_channels">>) =>
        /\ model_pruned_cfg.ffn_hidden_size = cfg_prune.ffn_hidden_size
        /\ model_pruned_cfg.num_attention_heads = cfg_prune.num_attention_heads
        /\ model_pruned_cfg.num_query_groups = cfg_prune.num_query_groups
        /\ model_pruned_cfg.kv_channels =
               IF "kv_channels" \in DOMAIN model_cfg /\ model_cfg.kv_channels # None
               THEN model_cfg.kv_channels
               ELSE model_cfg.hidden_size \div model_cfg.num_attention_heads
        /\ saved # <<>> => saved[1] = model_pruned_cfg

C8_Witness ==
    /\ pc = "done"
    /\ "kv_channels" \in DOMAIN model_cfg
    /\ model_cfg.kv_channels = None
    /\ model_cfg.hidden_size % model_cfg.num_attention_heads # 0
    /\ model_cfg.num_attention_heads # cfg_prune.num_attention_heads
    /\ saved[1].kv_channels = 1

\* C9: applying the correction again with the same request and merged
\* configuration leaves the four fields as the first application left them.
C9_CorrectionIdempotent ==
    \A k \in 2..Len(applied) : \A f \in CorrectedFields : applied[k][f] = applied[1][f]

C9_Witness ==
    /\ Len(applied) >= 2
    /\ "kv_channels" \notin DOMAIN model_cfg
    /\ model_pruned_cfg = applied[2]
    /\ model_cfg.num_attention_heads # cfg_prune.num_attention_heads

\* C10: every invocation of forward_loop first sets the inference config and
\* then makes one predict step per calibration batch, in list order, the i-th
\* batch with step index i; a later invocation sees the same full list.
C10_ForwardLoopEveryInvocation ==
    \A k \in 1..Len(fwd_calls) :
        /\ Len(fwd_calls[k]) = 1 + Len(dataloader)
        /\ fwd_calls[k][1] = <<"set_inference_config">>
        /\ \A i \in 1..Len(dataloader) :
               fwd_calls[k][i + 1] = <<"predict_step", dataloader[i], i - 1>>

C10_Witness ==
    /\ Len(fwd_calls) >= 2
    /\ Len(dataloader) >= 2
    /\ Len(dataloader[2]) >= 2
    /\ pc = "correct"
====
